---- MODULE Spec2Model ----
(***************************************************************************)
(* Send-side bandwidth estimation                                          *)
(* (modules/bitrate_controller/send_side_bandwidth_estimation.cc).         *)
(*                                                                         *)
(* The estimator is one object; every public method is one atomic action.  *)
(* The private helpers (CalcTfrcBps, UpdateEstimate,                       *)
(* CapBitrateToThresholds) are operators over a record of the object's     *)
(* fields.  Besides the ten fields, the model keeps what a caller can      *)
(* observe of the last call: the method, its arguments and the path it     *)
(* took (call), what CurrentEstimate wrote through its out-pointers (ret), *)
(* and how many feedback reports have been delivered (reports).            *)
(*                                                                         *)
(* Numbers.  The bitrates, losses and round-trip times of the model stay   *)
(* below 2^31, where the code's unsigned arithmetic is exact.  The         *)
(* cooldown subtraction now_ms - time_last_X wraps when now_ms is the      *)
(* smaller number; ElapsedAtLeast models that wrap.  Times of 2^31 or more *)
(* (a clock about to wrap, ClockSpec) are written as the negative number   *)
(* they are congruent to modulo 2^32.                                      *)
(* The two floating-point updates of bitrate_ are exact integer functions  *)
(* on this range (see IncreasedBitrate, DecreasedBitrate).                 *)
(***************************************************************************)
EXTENDS Integers, Sequences, FiniteSets, TLC

\* ------------------------------------------------------------------------
\* Program constants (anonymous enums at the top of the file).
\* ------------------------------------------------------------------------
kBweIncreaseIntervalMs == 1000
kBweDecreaseIntervalMs == 300
kLimitNumPackets == 20

\* ------------------------------------------------------------------------
\* Bounds of the model and the arguments the callers draw from.
\* ------------------------------------------------------------------------
\* Number of UpdateReceiverBlock calls in one run.
MaxReports == 2

\* SetSendBitrate arguments: the second is one increase away from the
\* larger configured maximum.
SendBitrates == {300000, 950000}
\* SetMinMaxBitrate / SetMinBitrate arguments: the minimum exceeds the
\* smaller maximum.
MinBitrates == {50000}
MaxBitrates == {30000, 1000000}
\* UpdateReceiverEstimate arguments: no estimate, one below the configured
\* minimum, one between the minimum and the larger maximum.
Bandwidths == {0, 40000, 200000}
\* UpdateReceiverBlock arguments.  The losses sit on both sides of the two
\* thresholds 5 and 26; two reports of 10 packets reach the packet limit
\* exactly, and number_of_packets is an int that may be zero or negative;
\* the times are apart by less than, exactly and more than the two cooldown
\* intervals.
FractionLosses == {0, 5, 6, 26, 27, 200}
Rtts == {0, 50, 100}
PacketCounts == {-1, 0, 10, 25}
Times == {0, 1000, 1300, 2000}

VARIABLES
  accumulate_lost_packets_Q8_,
  accumulate_expected_packets_,
  bitrate_,
  min_bitrate_configured_,
  max_bitrate_configured_,
  last_fraction_loss_,
  last_round_trip_time_,
  bwe_incoming_,
  time_last_increase_,
  time_last_decrease_,
  call,
  ret,
  reports

fields == << accumulate_lost_packets_Q8_, accumulate_expected_packets_,
             bitrate_, min_bitrate_configured_, max_bitrate_configured_,
             last_fraction_loss_, last_round_trip_time_, bwe_incoming_,
             time_last_increase_, time_last_decrease_ >>

vars == << accumulate_lost_packets_Q8_, accumulate_expected_packets_,
           bitrate_, min_bitrate_configured_, max_bitrate_configured_,
           last_fraction_loss_, last_round_trip_time_, bwe_incoming_,
           time_last_increase_, time_last_decrease_, call, ret, reports >>

\* The object's fields as one record, the argument of the helper operators.
This ==
  [ accumulate_lost_packets_Q8_  |-> accumulate_lost_packets_Q8_,
    accumulate_expected_packets_ |-> accumulate_expected_packets_,
    bitrate_                     |-> bitrate_,
    min_bitrate_configured_      |-> min_bitrate_configured_,
    max_bitrate_configured_      |-> max_bitrate_configured_,
    last_fraction_loss_          |-> last_fraction_loss_,
    last_round_trip_time_        |-> last_round_trip_time_,
    bwe_incoming_                |-> bwe_incoming_,
    time_last_increase_          |-> time_last_increase_,
    time_last_decrease_          |-> time_last_decrease_ ]

\* The fields after a method: s is the record the method computed.
Becomes(s) ==
  /\ accumulate_lost_packets_Q8_' = s.accumulate_lost_packets_Q8_
  /\ accumulate_expected_packets_' = s.accumulate_expected_packets_
  /\ bitrate_' = s.bitrate_
  /\ min_bitrate_configured_' = s.min_bitrate_configured_
  /\ max_bitrate_configured_' = s.max_bitrate_configured_
  /\ last_fraction_loss_' = s.last_fraction_loss_
  /\ last_round_trip_time_' = s.last_round_trip_time_
  /\ bwe_incoming_' = s.bwe_incoming_
  /\ time_last_increase_' = s.time_last_increase_
  /\ time_last_decrease_' = s.time_last_decrease_

\* ------------------------------------------------------------------------
\* CalcTfrcBps (lines 26-46).
\* ------------------------------------------------------------------------
\* static_cast<uint32_t>(X * 8) of lines 31-45 for rtt = 1 and loss = 1..255
\* (index = loss).  The double expression has the form c(loss) / rtt; running
\* the function over all rtt in 1..65535 and loss in 1..255 gives exactly
\* TfrcBpsAtRtt1[loss] \div rtt.
TfrcBpsAtRtt1 ==
  <<
     151124429, 103326538, 81649216, 68485726, 59366152, 52549581, 47195430,
     42840229, 39204139, 36106622, 33425170, 31073290, 28987927, 27121885,
     25439050, 23911264, 22516217, 21235979, 20055960, 18964157, 17950591,
     17006893, 16125981, 15301818, 14529212, 13803674, 13121289, 12478628,
     11872660, 11300696, 10760335, 10249422, 9766008, 9308331, 8874779,
     8463883, 8074288, 7704747, 7354106, 7021292, 6705308, 6405223, 6120168,
     5849325, 5591931, 5347266, 5114653, 4893453, 4683067, 4482927, 4292496,
     4111269, 3938767, 3774537, 3618152, 3469207, 3327319, 3192125, 3063281,
     2940464, 2823365, 2711693, 2605172, 2503542, 2406555, 2313978, 2225587,
     2141175, 2060541, 1983498, 1909867, 1839479, 1772175, 1707804, 1646220,
     1587289, 1530882, 1476877, 1425157, 1375613, 1328142, 1282645, 1239027,
     1197202, 1157083, 1118593, 1081655, 1046197, 1012151, 979453, 948041,
     917857, 888846, 860954, 834132, 808333, 783511, 759623, 736628, 714488,
     693166, 672626, 652835, 633761, 615375, 597646, 580547, 564052, 548137,
     532777, 517950, 503633, 489807, 476452, 463548, 451077, 439024, 427370,
     416101, 405202, 394657, 384455, 374580, 365022, 355768, 346806, 338126,
     329718, 321570, 313674, 306020, 298600, 291404, 284426, 277657, 271089,
     264716, 258531, 252527, 246697, 241037, 235539, 230199, 225011, 219969,
     215070, 210307, 205677, 201176, 196798, 192540, 188397, 184367, 180446,
     176629, 172914, 169298, 165777, 162348, 159009, 155756, 152587, 149499,
     146490, 143558, 140700, 137913, 135196, 132547, 129963, 127443, 124985,
     122587, 120246, 117963, 115734, 113558, 111434, 109361, 107336, 105358,
     103427, 101541, 99698, 97897, 96138, 94418, 92738, 91095, 89490, 87920,
     86385, 84884, 83416, 81981, 80576, 79202, 77858, 76543, 75256, 73996,
     72764, 71557, 70376, 69219, 68086, 66978, 65892, 64828, 63786, 62765,
     61766, 60786, 59826, 58886, 57964, 57060, 56175, 55307, 54455, 53621,
     52803, 52001, 51214, 50442, 49685, 48943, 48215, 47500, 46799, 46111,
     45436, 44774, 44124, 43485, 42859, 42244, 41640, 41048, 40466, 39894,
     39333, 38782, 38241, 37709, 37187, 36674, 36170, 35675, 35188, 34710,
     34240, 33778, 33325, 32879
  >>

Max(a, b) == IF a >= b THEN a ELSE b

\* uint16_t rtt, uint8_t loss: the arguments are narrowed at the call.
CalcTfrcBps(rtt, loss) ==
  LET r == rtt % 65536
      l == loss % 256
  IN  IF r = 0 \/ l = 0 THEN 0 ELSE TfrcBpsAtRtt1[l] \div r

\* CapBitrateToThresholds with the raise to the minimum (lines 169-178)
\* moved in front of the two caps.
CapMinimumFirst(s) ==
  LET b1 == IF s.bitrate_ < s.min_bitrate_configured_
            THEN s.min_bitrate_configured_ ELSE s.bitrate_
      b2 == IF s.bwe_incoming_ > 0 /\ b1 > s.bwe_incoming_
            THEN s.bwe_incoming_ ELSE b1
      b3 == IF b2 > s.max_bitrate_configured_
            THEN s.max_bitrate_configured_ ELSE b2
  IN  [s EXCEPT !.bitrate_ = b3]

\* CapBitrateToThresholds without lines 163-165: the receiver estimate is
\* never applied.
CapWithoutReceiverEstimate(s) ==
  LET b2 == IF s.bitrate_ > s.max_bitrate_configured_
            THEN s.max_bitrate_configured_ ELSE s.bitrate_
      b3 == IF b2 < s.min_bitrate_configured_
            THEN s.min_bitrate_configured_ ELSE b2
  IN  [s EXCEPT !.bitrate_ = b3]

\* ------------------------------------------------------------------------
\* CapBitrateToThresholds (lines 162-179): cap to the receiver estimate when
\* there is one, cap to the configured maximum, raise to the configured
\* minimum.  The three ifs run in this order, each on the result of the
\* one before.
\* ------------------------------------------------------------------------
CapBitrateToThresholds(s) ==
  LET b1 == IF s.bwe_incoming_ > 0 /\ s.bitrate_ > s.bwe_incoming_
            THEN s.bwe_incoming_ ELSE s.bitrate_
      b2 == IF b1 > s.max_bitrate_configured_
            THEN s.max_bitrate_configured_ ELSE b1
      b3 == IF b2 < s.min_bitrate_configured_
            THEN s.min_bitrate_configured_ ELSE b2
  IN  [s EXCEPT !.bitrate_ = b3]

\* ------------------------------------------------------------------------
\* UpdateEstimate (lines 121-160).
\* ------------------------------------------------------------------------
\* The comparison of lines 124 and 142 with > in place of >=.
ElapsedMoreThan(now_ms, last, interval) ==
  IF now_ms >= last
  THEN now_ms - last > interval
  ELSE (last - now_ms) - 2147483647 - 1 < 2147483647 - (interval - 1)

\* The comparison of lines 124 and 142 in signed arithmetic: a clock behind
\* the timestamp gives a negative difference.
ElapsedAtLeastSigned(now_ms, last, interval) ==
  now_ms - last >= interval

\* (now_ms - last) >= interval in uint32_t arithmetic (lines 124, 142-143),
\* for now_ms, last and interval below 2^31: the difference is now_ms - last
\* when the clock is not behind the timestamp and 2^32 - (last - now_ms)
\* when it is.  The second comparison is written around 2^31 because 2^32 is
\* not a number TLC holds.  The same holds when a time of 2^31 or more is
\* written as the negative number congruent to it modulo 2^32 (ClockTimes).
ElapsedAtLeast(now_ms, last, interval) ==
  IF now_ms >= last
  THEN now_ms - last >= interval
  ELSE \/ interval = 0
       \/ (last - now_ms) - 2147483647 - 1 <= 2147483647 - (interval - 1)

\* Lines 127-128 without the extra 1 kbps of line 133.
IncreasedBitrateWithoutBump(bitrate) ==
  108 * (bitrate \div 100) + (108 * (bitrate % 100) + 50) \div 100

\* static_cast<uint32_t>(bitrate_ * 1.08 + 0.5) followed by += 1000
\* (lines 128, 133).  bitrate_ * 1.08 + 0.5 is never within 0.01 of an
\* integer, so the truncated double equals floor((108 * bitrate_ + 50) / 100);
\* the quotient and remainder by 100 are multiplied separately to keep the
\* products small.
IncreasedBitrate(bitrate) ==
  108 * (bitrate \div 100) + (108 * (bitrate % 100) + 50) \div 100 + 1000

\* static_cast<uint32_t>((bitrate_ * double(512 - loss)) / 512.0)
\* (lines 149-150): the product is exact in a double and so is the division
\* by 512, so the cast yields floor(bitrate_ * (512 - loss) / 512).
DecreasedBitrate(bitrate, loss) ==
  (bitrate \div 512) * (512 - loss) + ((bitrate % 512) * (512 - loss)) \div 512

\* UpdateEstimate with the decrease limited to once a kBweDecreaseIntervalMs,
\* the round-trip time left out of line 143.
EstimateBranchFixedInterval(s, now_ms) ==
  IF s.last_fraction_loss_ <= 5
  THEN IF ElapsedAtLeast(now_ms, s.time_last_increase_, kBweIncreaseIntervalMs)
       THEN "increase" ELSE "increase_wait"
  ELSE IF s.last_fraction_loss_ <= 26
  THEN "hold"
  ELSE IF ElapsedAtLeast(now_ms, s.time_last_decrease_, kBweDecreaseIntervalMs)
       THEN "decrease" ELSE "decrease_wait"

\* UpdateEstimate with < in place of <= at line 122: a loss of 5 takes the
\* path that does nothing.
EstimateBranchIncreaseBelow5(s, now_ms) ==
  IF s.last_fraction_loss_ < 5
  THEN IF ElapsedAtLeast(now_ms, s.time_last_increase_, kBweIncreaseIntervalMs)
       THEN "increase" ELSE "increase_wait"
  ELSE IF s.last_fraction_loss_ <= 26
  THEN "hold"
  ELSE IF ElapsedAtLeast(now_ms, s.time_last_decrease_,
                         kBweDecreaseIntervalMs + s.last_round_trip_time_)
       THEN "decrease" ELSE "decrease_wait"

\* UpdateEstimate with < in place of <= at line 136: a loss of 26 takes the
\* decrease path.
EstimateBranchHoldBelow26(s, now_ms) ==
  IF s.last_fraction_loss_ <= 5
  THEN IF ElapsedAtLeast(now_ms, s.time_last_increase_, kBweIncreaseIntervalMs)
       THEN "increase" ELSE "increase_wait"
  ELSE IF s.last_fraction_loss_ < 26
  THEN "hold"
  ELSE IF ElapsedAtLeast(now_ms, s.time_last_decrease_,
                         kBweDecreaseIntervalMs + s.last_round_trip_time_)
       THEN "decrease" ELSE "decrease_wait"

\* The path UpdateEstimate takes through its if / else-if / else.
EstimateBranch(s, now_ms) ==
  IF s.last_fraction_loss_ <= 5
  THEN IF ElapsedAtLeast(now_ms, s.time_last_increase_, kBweIncreaseIntervalMs)
       THEN "increase" ELSE "increase_wait"
  ELSE IF s.last_fraction_loss_ <= 26
  THEN "hold"
  ELSE IF ElapsedAtLeast(now_ms, s.time_last_decrease_,
                         kBweDecreaseIntervalMs + s.last_round_trip_time_)
       THEN "decrease" ELSE "decrease_wait"

\* Lines 122-157 without the TFRC floor of lines 154-155.
AdaptRateWithoutTfrcFloor(s, now_ms) ==
  LET path == EstimateBranch(s, now_ms)
  IN  IF path = "increase"
      THEN [s EXCEPT !.time_last_increase_ = now_ms,
                     !.bitrate_ = IncreasedBitrate(s.bitrate_)]
      ELSE IF path = "decrease"
      THEN [s EXCEPT !.time_last_decrease_ = now_ms,
                     !.bitrate_ =
                        DecreasedBitrate(s.bitrate_, s.last_fraction_loss_)]
      ELSE s

\* The fields after lines 122-157, before the call of CapBitrateToThresholds.
AdaptRate(s, now_ms) ==
  LET path == EstimateBranch(s, now_ms)
  IN  IF path = "increase"
      THEN [s EXCEPT !.time_last_increase_ = now_ms,
                     !.bitrate_ = IncreasedBitrate(s.bitrate_)]
      ELSE IF path = "decrease"
      THEN [s EXCEPT !.time_last_decrease_ = now_ms,
                     !.bitrate_ =
                        Max(DecreasedBitrate(s.bitrate_, s.last_fraction_loss_),
                            CalcTfrcBps(s.last_round_trip_time_,
                                        s.last_fraction_loss_))]
      ELSE s

UpdateEstimate(s, now_ms) == CapBitrateToThresholds(AdaptRate(s, now_ms))

\* ------------------------------------------------------------------------
\* UpdateReceiverBlock (lines 90-119) as a function of the fields.
\* ------------------------------------------------------------------------
\* Lines 95-103 without line 95: the round-trip time is not stored.
AccumulatedKeepingRtt(s, fraction_loss, rtt, number_of_packets) ==
  IF number_of_packets > 0
  THEN [s EXCEPT
          !.accumulate_lost_packets_Q8_ =
              s.accumulate_lost_packets_Q8_
                + fraction_loss * number_of_packets,
          !.accumulate_expected_packets_ =
              s.accumulate_expected_packets_ + number_of_packets]
  ELSE s

\* Lines 95-103 with line 100 adding fraction_loss itself: the report is not
\* weighted by its number of packets.
AccumulatedUnweighted(s, fraction_loss, rtt, number_of_packets) ==
  LET s1 == [s EXCEPT !.last_round_trip_time_ = rtt]
  IN  IF number_of_packets > 0
      THEN [s1 EXCEPT
              !.accumulate_lost_packets_Q8_ =
                  s.accumulate_lost_packets_Q8_ + fraction_loss,
              !.accumulate_expected_packets_ =
                  s.accumulate_expected_packets_ + number_of_packets]
      ELSE s1

\* Lines 95-103: the round-trip time is stored, and a report on at least one
\* packet is added to the accumulators.
Accumulated(s, fraction_loss, rtt, number_of_packets) ==
  LET s1 == [s EXCEPT !.last_round_trip_time_ = rtt]
  IN  IF number_of_packets > 0
      THEN [s1 EXCEPT
              !.accumulate_lost_packets_Q8_ =
                  s.accumulate_lost_packets_Q8_
                    + fraction_loss * number_of_packets,
              !.accumulate_expected_packets_ =
                  s.accumulate_expected_packets_ + number_of_packets]
      ELSE s1

\* Line 106 with > in place of >=.
GatedAtLimit(s, number_of_packets) ==
  /\ number_of_packets > 0
  /\ s.accumulate_expected_packets_ + number_of_packets <= kLimitNumPackets

\* Line 98 with >= in place of >: a report on no packets is gated too.
GatedNonPositive(s, number_of_packets) ==
  /\ number_of_packets >= 0
  /\ s.accumulate_expected_packets_ + number_of_packets < kLimitNumPackets

\* Line 106 is reached and fails: the early return of line 115.
Gated(s, number_of_packets) ==
  /\ number_of_packets > 0
  /\ s.accumulate_expected_packets_ + number_of_packets < kLimitNumPackets

\* Lines 106-112 without the resets of lines 111-112.
CommittedWithoutReset(a) ==
  [a EXCEPT !.last_fraction_loss_ =
                a.accumulate_lost_packets_Q8_ \div a.accumulate_expected_packets_]

\* Lines 106-112 without the division of line 108: the accumulated Q8 loss
\* is committed as it is.
CommittedWithoutDivision(a) ==
  [a EXCEPT !.last_fraction_loss_ = a.accumulate_lost_packets_Q8_,
            !.accumulate_lost_packets_Q8_ = 0,
            !.accumulate_expected_packets_ = 0]

\* Lines 106-112: the loss is committed and the accumulators are reset.
Committed(a) ==
  [a EXCEPT !.last_fraction_loss_ =
                a.accumulate_lost_packets_Q8_ \div a.accumulate_expected_packets_,
            !.accumulate_lost_packets_Q8_ = 0,
            !.accumulate_expected_packets_ = 0]

\* The fields at line 118, when it is reached.
BeforeEstimate(s, fraction_loss, rtt, number_of_packets) ==
  LET a == Accumulated(s, fraction_loss, rtt, number_of_packets)
  IN  IF number_of_packets > 0 THEN Committed(a) ELSE a

ReceiverBlock(s, fraction_loss, rtt, number_of_packets, now_ms) ==
  IF Gated(s, number_of_packets)
  THEN Accumulated(s, fraction_loss, rtt, number_of_packets)
  ELSE UpdateEstimate(BeforeEstimate(s, fraction_loss, rtt, number_of_packets),
                      now_ms)

ReceiverBlockBranch(s, fraction_loss, rtt, number_of_packets, now_ms) ==
  IF Gated(s, number_of_packets)
  THEN "gated"
  ELSE EstimateBranch(BeforeEstimate(s, fraction_loss, rtt, number_of_packets),
                      now_ms)

\* ------------------------------------------------------------------------
\* The public methods.
\* ------------------------------------------------------------------------
NoResult == << >>

\* Constructor (lines 49-59).
Init ==
  /\ accumulate_lost_packets_Q8_ = 0
  /\ accumulate_expected_packets_ = 0
  /\ bitrate_ = 0
  /\ min_bitrate_configured_ = 0
  /\ max_bitrate_configured_ = 0
  /\ last_fraction_loss_ = 0
  /\ last_round_trip_time_ = 0
  /\ bwe_incoming_ = 0
  /\ time_last_increase_ = 0
  /\ time_last_decrease_ = 0
  /\ call = [op |-> "constructor"]
  /\ ret = NoResult
  /\ reports = 0

\* Lines 63-65.
SetSendBitrate(bitrate) ==
  /\ Becomes([This EXCEPT !.bitrate_ = bitrate])
  /\ call' = [op |-> "SetSendBitrate", bitrate |-> bitrate]
  /\ ret' = NoResult
  /\ UNCHANGED reports

\* Lines 67-71.
SetMinMaxBitrate(min_bitrate, max_bitrate) ==
  /\ Becomes([This EXCEPT !.min_bitrate_configured_ = min_bitrate,
                          !.max_bitrate_configured_ = max_bitrate])
  /\ call' = [op |-> "SetMinMaxBitrate", min_bitrate |-> min_bitrate,
              max_bitrate |-> max_bitrate]
  /\ ret' = NoResult
  /\ UNCHANGED reports

\* Lines 73-75.
SetMinBitrate(min_bitrate) ==
  /\ Becomes([This EXCEPT !.min_bitrate_configured_ = min_bitrate])
  /\ call' = [op |-> "SetMinBitrate", min_bitrate |-> min_bitrate]
  /\ ret' = NoResult
  /\ UNCHANGED reports

\* Lines 80-82 with the round-trip time written to *loss as well.
EstimateOfRttForLoss(s) ==
  << s.bitrate_, s.last_round_trip_time_, s.last_round_trip_time_ >>

\* What CurrentEstimate writes to *bitrate, *loss and *rtt (lines 80-82).
EstimateOf(s) ==
  << s.bitrate_, s.last_fraction_loss_, s.last_round_trip_time_ >>

\* Lines 77-83 (a const method).
CurrentEstimate ==
  /\ Becomes(This)
  /\ call' = [op |-> "CurrentEstimate"]
  /\ ret' = EstimateOf(This)
  /\ UNCHANGED reports

\* Lines 85-88 without the call of CapBitrateToThresholds.
ReceiverEstimateWithoutCap(s, bandwidth) ==
  [s EXCEPT !.bwe_incoming_ = bandwidth]

\* Lines 85-88 with lines 86 and 87 exchanged: the cap runs against the
\* estimate of the call before.
ReceiverEstimateCapFirst(s, bandwidth) ==
  [CapBitrateToThresholds(s) EXCEPT !.bwe_incoming_ = bandwidth]

\* Lines 85-88.
ReceiverEstimate(s, bandwidth) ==
  CapBitrateToThresholds([s EXCEPT !.bwe_incoming_ = bandwidth])

UpdateReceiverEstimate(bandwidth) ==
  /\ Becomes(ReceiverEstimate(This, bandwidth))
  /\ call' = [op |-> "UpdateReceiverEstimate", bandwidth |-> bandwidth]
  /\ ret' = NoResult
  /\ UNCHANGED reports

\* Lines 90-119.
UpdateReceiverBlock(fraction_loss, rtt, number_of_packets, now_ms) ==
  /\ reports < MaxReports
  /\ Becomes(ReceiverBlock(This, fraction_loss, rtt, number_of_packets, now_ms))
  /\ call' = [op |-> "UpdateReceiverBlock", fraction_loss |-> fraction_loss,
              rtt |-> rtt, number_of_packets |-> number_of_packets,
              now_ms |-> now_ms,
              branch |-> ReceiverBlockBranch(This, fraction_loss, rtt,
                                             number_of_packets, now_ms)]
  /\ ret' = NoResult
  /\ reports' = reports + 1

Next ==
  \/ \E bitrate \in SendBitrates : SetSendBitrate(bitrate)
  \/ \E min_bitrate \in MinBitrates, max_bitrate \in MaxBitrates :
        SetMinMaxBitrate(min_bitrate, max_bitrate)
  \/ \E min_bitrate \in MinBitrates : SetMinBitrate(min_bitrate)
  \/ CurrentEstimate
  \/ \E bandwidth \in Bandwidths : UpdateReceiverEstimate(bandwidth)
  \/ \E fraction_loss \in FractionLosses, rtt \in Rtts,
        number_of_packets \in PacketCounts, now_ms \in Times :
        UpdateReceiverBlock(fraction_loss, rtt, number_of_packets, now_ms)

Spec == Init /\ [][Next]_vars

\* ------------------------------------------------------------------------
\* What the last call was, for the properties below.
\* ------------------------------------------------------------------------
IsReport(c) == c.op = "UpdateReceiverBlock"
IsHint(c) == c.op = "UpdateReceiverEstimate"
\* A report that reached UpdateEstimate (line 118).
IsAdaptingReport(c) == IsReport(c) /\ c.branch # "gated"
\* A call that ended in CapBitrateToThresholds (lines 87 and 159).
EndsInCap(c) == IsHint(c) \/ IsAdaptingReport(c)

\* ------------------------------------------------------------------------
\* C1
\* ------------------------------------------------------------------------
\* C1 as stated: whenever UpdateReceiverBlock or UpdateReceiverEstimate has
\* returned, min_bitrate_configured_ <= bitrate_ <= max_bitrate_configured_,
\* and bitrate_ <= bwe_incoming_ when bwe_incoming_ > 0.
C1_BoundsAfterEveryUpdate ==
  (IsReport(call) \/ IsHint(call)) =>
     /\ min_bitrate_configured_ <= bitrate_
     /\ bitrate_ <= max_bitrate_configured_
     /\ (bwe_incoming_ > 0 => bitrate_ <= bwe_incoming_)

\* C1 amended: whenever UpdateReceiverEstimate, or an UpdateReceiverBlock
\* call that was not gated by the packet limit, has returned, bitrate_ is at
\* least the configured minimum; it is at most the configured maximum when
\* the minimum does not exceed the maximum; and it is at most a positive
\* receiver estimate when the minimum does not exceed that estimate.
C1_BoundsAfterCap ==
  EndsInCap(call) =>
     /\ min_bitrate_configured_ <= bitrate_
     /\ (min_bitrate_configured_ <= max_bitrate_configured_
           => bitrate_ <= max_bitrate_configured_)
     /\ (bwe_incoming_ > 0 /\ min_bitrate_configured_ <= bwe_incoming_
           => bitrate_ <= bwe_incoming_)

\* An increase was applied and then capped by a receiver estimate that lies
\* between the configured bounds.
C1_Witness ==
  /\ IsReport(call) /\ call.branch = "increase"
  /\ bwe_incoming_ > 0
  /\ bitrate_ = bwe_incoming_
  /\ min_bitrate_configured_ < bwe_incoming_
  /\ bwe_incoming_ < max_bitrate_configured_

\* ------------------------------------------------------------------------
\* C2
\* ------------------------------------------------------------------------
\* C2: a report on n > 0 packets that leaves the running packet sum
\* (accumulate_expected_packets_ + n) below 20 changes none of bitrate_,
\* last_fraction_loss_, time_last_increase_, time_last_decrease_ and only
\* adds to the accumulators; a report that brings the sum to 20 or more
\* commits last_fraction_loss_ = accumulated loss / accumulated packets,
\* resets the accumulators and runs UpdateEstimate in the same call.
C2_SampleGating ==
  [][ (IsReport(call') /\ call'.number_of_packets > 0) =>
        LET n    == call'.number_of_packets
            sum  == accumulate_expected_packets_ + n
            lost == accumulate_lost_packets_Q8_ + call'.fraction_loss * n
        IN  IF sum < 20
            THEN /\ call'.branch = "gated"
                 /\ UNCHANGED << bitrate_, last_fraction_loss_,
                                 time_last_increase_, time_last_decrease_ >>
                 /\ accumulate_expected_packets_' = sum
                 /\ accumulate_lost_packets_Q8_' = lost
            ELSE /\ call'.branch # "gated"
                 /\ last_fraction_loss_' = lost \div sum
                 /\ accumulate_expected_packets_' = 0
                 /\ accumulate_lost_packets_Q8_' = 0
                 /\ This' = UpdateEstimate(
                               [This EXCEPT
                                  !.last_round_trip_time_ = call'.rtt,
                                  !.last_fraction_loss_ = lost \div sum,
                                  !.accumulate_expected_packets_ = 0,
                                  !.accumulate_lost_packets_Q8_ = 0],
                               call'.now_ms)
    ]_vars

\* A report of 10 packets was not gated: it came after a gated report of 10
\* packets and brought the sum to exactly 20; the loss it committed is not
\* the one it reported, and the rate was decreased in the same call.
C2_Witness ==
  /\ IsReport(call) /\ call.number_of_packets = 10
  /\ call.branch = "decrease"
  /\ last_fraction_loss_ # call.fraction_loss
  /\ accumulate_expected_packets_ = 0

\* ------------------------------------------------------------------------
\* C3
\* ------------------------------------------------------------------------
\* C3: when UpdateEstimate runs with last_fraction_loss_ <= 5 and a clock
\* that is not behind time_last_increase_, the increase is applied (and
\* time_last_increase_ becomes now_ms) if and only if
\* now_ms - time_last_increase_ >= 1000; otherwise time_last_increase_ and
\* time_last_decrease_ keep their values.  So of two consecutive such
\* reports the first of which increased, the second increases if and only
\* if it comes 1000 ms or more after the first.
C3_IncreaseCooldown ==
  [][ (/\ IsAdaptingReport(call')
       /\ last_fraction_loss_' <= 5
       /\ call'.now_ms >= time_last_increase_) =>
        LET now == call'.now_ms
            due == now - time_last_increase_ >= 1000
        IN  /\ (call'.branch = "increase") <=> due
            /\ time_last_increase_' = IF due THEN now ELSE time_last_increase_
            /\ UNCHANGED time_last_decrease_
            /\ bitrate_' =
                 CapBitrateToThresholds(
                   [This' EXCEPT !.bitrate_ =
                      IF due THEN (bitrate_ * 108 + 50) \div 100 + 1000
                             ELSE bitrate_]).bitrate_
            /\ (/\ IsReport(call) /\ call.branch = "increase"
                /\ now >= call.now_ms)
                 => ((call'.branch = "increase") <=> now - call.now_ms >= 1000)
    ]_vars

\* The second of two increases, each at the first millisecond its cooldown
\* allowed.
C3_Witness ==
  /\ IsReport(call) /\ call.branch = "increase"
  /\ reports = 2
  /\ call.now_ms = 2000
  /\ time_last_increase_ = 2000
  /\ bitrate_ = 352000

\* ------------------------------------------------------------------------
\* C4
\* ------------------------------------------------------------------------
\* C4: when UpdateEstimate runs with last_fraction_loss_ > 26 and a clock
\* that is not behind time_last_decrease_, the decrease is applied (and
\* time_last_decrease_ becomes now_ms) if and only if
\* now_ms - time_last_decrease_ >= 300 + rtt, rtt being the argument of the
\* report that is running; otherwise both timestamps and, up to the cap,
\* bitrate_ keep their values.
C4_DecreaseCooldown ==
  [][ (/\ IsAdaptingReport(call')
       /\ last_fraction_loss_' > 26
       /\ call'.now_ms >= time_last_decrease_) =>
        LET now == call'.now_ms
            due == now - time_last_decrease_ >= 300 + call'.rtt
        IN  /\ last_round_trip_time_' = call'.rtt
            /\ (call'.branch = "decrease") <=> due
            /\ time_last_decrease_' = IF due THEN now ELSE time_last_decrease_
            /\ UNCHANGED time_last_increase_
            /\ ~due => bitrate_' = CapBitrateToThresholds(
                          [This' EXCEPT !.bitrate_ = bitrate_]).bitrate_
    ]_vars

\* Two decreases at loss 200 from 300000 (182812, then 111401), the second
\* at 1300 ms by a report with rtt = 0: exactly 300 ms after the first.
C4_Witness ==
  /\ IsReport(call) /\ call.branch = "decrease"
  /\ reports = 2
  /\ call.rtt = 0
  /\ call.now_ms = 1300
  /\ time_last_decrease_ = 1300
  /\ last_fraction_loss_ = 200
  /\ bitrate_ = 111401

\* ------------------------------------------------------------------------
\* C5
\* ------------------------------------------------------------------------
\* The value of bitrate_ at line 155 of a report that decreased: the larger
\* of the multiplicative result and the TFRC rate, from the fields before
\* the call (b), the loss the call committed and the rtt it stored.
MultiplicativeResult(b, loss) == (b * (512 - loss)) \div 512
DecreaseResult(b, rtt, loss) ==
  Max(MultiplicativeResult(b, loss), CalcTfrcBps(rtt, loss))
TfrcWithinThresholds(s, tfrc) ==
  /\ s.min_bitrate_configured_ <= tfrc
  /\ tfrc <= s.max_bitrate_configured_
  /\ (s.bwe_incoming_ > 0 => tfrc <= s.bwe_incoming_)

\* C5 as stated: a decrease leaves the cap of
\* max(floor(bitrate * (512 - loss) / 512), CalcTfrcBps(rtt, loss)); the
\* committed bitrate is the TFRC rate when that exceeds the multiplicative
\* result and lies within the bounds and the hint; and with rtt = 0
\* CalcTfrcBps is 0 and the committed bitrate is the multiplicative result.
C5_TfrcFloorAsStated ==
  [][ (IsReport(call') /\ call'.branch = "decrease") =>
        LET loss == last_fraction_loss_'
            rtt  == last_round_trip_time_'
            mult == MultiplicativeResult(bitrate_, loss)
            tfrc == CalcTfrcBps(rtt, loss)
        IN  /\ bitrate_' = CapBitrateToThresholds(
                  [This' EXCEPT !.bitrate_ = DecreaseResult(bitrate_, rtt, loss)]
                ).bitrate_
            /\ (mult < tfrc /\ TfrcWithinThresholds(This', tfrc))
                  => bitrate_' = tfrc
            /\ rtt = 0 => (tfrc = 0 /\ bitrate_' = mult)
    ]_vars

\* C5 amended: as stated, except that with rtt = 0 the committed bitrate is
\* the multiplicative result capped to the thresholds (the multiplicative
\* result itself when it lies within them); CalcTfrcBps is 0 for loss = 0
\* too, which no decrease meets.
C5_TfrcFloor ==
  [][ (IsReport(call') /\ call'.branch = "decrease") =>
        LET loss == last_fraction_loss_'
            rtt  == last_round_trip_time_'
            mult == MultiplicativeResult(bitrate_, loss)
            tfrc == CalcTfrcBps(rtt, loss)
        IN  /\ bitrate_' = CapBitrateToThresholds(
                  [This' EXCEPT !.bitrate_ = DecreaseResult(bitrate_, rtt, loss)]
                ).bitrate_
            /\ (mult < tfrc /\ TfrcWithinThresholds(This', tfrc))
                  => bitrate_' = tfrc
            /\ rtt = 0 =>
                 /\ tfrc = 0
                 /\ bitrate_' = CapBitrateToThresholds(
                                   [This' EXCEPT !.bitrate_ = mult]).bitrate_
                 /\ TfrcWithinThresholds(This', mult) => bitrate_' = mult
            /\ loss > 26
            /\ CalcTfrcBps(rtt, 0) = 0
    ]_vars

\* A decrease at loss 27 and rtt 100 ms committed the TFRC rate of 131212
\* bps, which lies within the thresholds; the multiplicative result from
\* any bitrate below 138517 is smaller.
C5_Witness ==
  /\ IsReport(call) /\ call.branch = "decrease"
  /\ last_fraction_loss_ = 27
  /\ last_round_trip_time_ = 100
  /\ bitrate_ = 131212
  /\ bitrate_ = CalcTfrcBps(last_round_trip_time_, last_fraction_loss_)
  /\ TfrcWithinThresholds(This, bitrate_)

\* ------------------------------------------------------------------------
\* C6
\* ------------------------------------------------------------------------
\* A fresh estimator after SetSendBitrate(300000) and
\* SetMinMaxBitrate(50000, 1000000).
FreshConfigured ==
  /\ bitrate_ = 300000
  /\ min_bitrate_configured_ = 50000
  /\ max_bitrate_configured_ = 1000000
  /\ accumulate_lost_packets_Q8_ = 0
  /\ accumulate_expected_packets_ = 0
  /\ last_fraction_loss_ = 0
  /\ last_round_trip_time_ = 0
  /\ bwe_incoming_ = 0
  /\ time_last_increase_ = 0
  /\ time_last_decrease_ = 0

\* C6: a report that increases leaves the cap of
\* floor(bitrate * 1.08 + 0.5) + 1000.  From the fresh configured estimator,
\* UpdateReceiverBlock(0, 50, 25, now) commits loss 0 and, at now = 0, does
\* not increase (bitrate stays 300000); at now >= 1000 it yields 325000.
C6_IncreaseStep ==
  [][ /\ (IsReport(call') /\ call'.branch = "increase") =>
           bitrate_' = CapBitrateToThresholds(
                          [This' EXCEPT !.bitrate_ =
                              (bitrate_ * 108 + 50) \div 100 + 1000]).bitrate_
      /\ (/\ FreshConfigured
          /\ IsReport(call')
          /\ call'.fraction_loss = 0 /\ call'.rtt = 50
          /\ call'.number_of_packets = 25) =>
           /\ last_fraction_loss_' = 0
           /\ call'.now_ms = 0 =>
                (call'.branch = "increase_wait" /\ bitrate_' = 300000
                   /\ time_last_increase_' = 0)
           /\ call'.now_ms >= 1000 =>
                (call'.branch = "increase" /\ bitrate_' = 325000
                   /\ time_last_increase_' = call'.now_ms)
    ]_vars

\* The scenario's report at now = 1000, as the first report of the run.
C6_Witness ==
  /\ IsReport(call) /\ call.branch = "increase"
  /\ call.fraction_loss = 0 /\ call.rtt = 50
  /\ call.number_of_packets = 25 /\ call.now_ms = 1000
  /\ reports = 1
  /\ bitrate_ = 325000
  /\ min_bitrate_configured_ = 50000
  /\ max_bitrate_configured_ = 1000000
  /\ bwe_incoming_ = 0

\* ------------------------------------------------------------------------
\* C7
\* ------------------------------------------------------------------------
\* The value CapBitrateToThresholds starts from in the call that led to the
\* next state: the bitrate before UpdateReceiverEstimate; in a report, the
\* bitrate after lines 122-157 on the path the report took.
UncappedBitrate ==
  IF IsHint(call') THEN bitrate_
  ELSE IF call'.branch = "increase"
  THEN (bitrate_ * 108 + 50) \div 100 + 1000
  ELSE IF call'.branch = "decrease"
  THEN DecreaseResult(bitrate_, last_round_trip_time_', last_fraction_loss_')
  ELSE bitrate_

\* C7: whenever the cap runs, the result is the uncapped value capped to a
\* positive hint, then capped to the maximum, then raised to the minimum; so
\* when the value after the two caps is below the minimum the bitrate
\* becomes the minimum, also above the maximum and above a positive hint.
C7_MinimumWins ==
  [][ EndsInCap(call') =>
        \A v \in { UncappedBitrate } :
          LET hint == bwe_incoming_'
              max  == max_bitrate_configured_'
              min  == min_bitrate_configured_'
              c1   == IF hint > 0 /\ v > hint THEN hint ELSE v
              c2   == IF c1 > max THEN max ELSE c1
          IN  /\ c2 < min => bitrate_' = min
              /\ c2 >= min => bitrate_' = c2
              /\ (min > max \/ (hint > 0 /\ min > hint)) => bitrate_' = min
    ]_vars

\* The cap ran with the minimum above both the maximum and a positive hint.
C7_Witness ==
  /\ EndsInCap(call)
  /\ min_bitrate_configured_ > max_bitrate_configured_
  /\ bwe_incoming_ > 0
  /\ min_bitrate_configured_ > bwe_incoming_
  /\ max_bitrate_configured_ < bwe_incoming_
  /\ bitrate_ = min_bitrate_configured_

\* ------------------------------------------------------------------------
\* C8
\* ------------------------------------------------------------------------
\* C8 as stated: after SetSendBitrate, SetMinMaxBitrate, SetMinBitrate,
\* UpdateReceiverEstimate and every path of UpdateReceiverBlock, bitrate_
\* equals its own cap against the current hint, maximum and minimum.
C8_CapAfterEveryMutation ==
  call.op \in { "SetSendBitrate", "SetMinMaxBitrate", "SetMinBitrate",
                "UpdateReceiverEstimate", "UpdateReceiverBlock" }
    => bitrate_ = CapBitrateToThresholds(This).bitrate_

\* C8 amended: after UpdateReceiverEstimate and after every
\* UpdateReceiverBlock call that was not gated, bitrate_ equals its own cap
\* against the current hint, maximum and minimum.
C8_CapAfterUpdate ==
  EndsInCap(call) => bitrate_ = CapBitrateToThresholds(This).bitrate_

\* An increase from 950000 was capped to the maximum of 1000000.
C8_Witness ==
  /\ IsReport(call) /\ call.branch = "increase"
  /\ bwe_incoming_ = 0
  /\ min_bitrate_configured_ < max_bitrate_configured_
  /\ bitrate_ = max_bitrate_configured_

\* ------------------------------------------------------------------------
\* C9
\* ------------------------------------------------------------------------
\* C9: UpdateReceiverEstimate(v) stores v in bwe_incoming_ and caps
\* bitrate_; no other field changes; bitrate_ does not rise when it was at
\* least the minimum; with v = 0 the result is the bitrate capped to the
\* maximum and raised to the minimum only.
C9_ReceiverEstimateFrame ==
  [][ IsHint(call') =>
        LET v  == call'.bandwidth
            c2 == IF bitrate_ > max_bitrate_configured_
                  THEN max_bitrate_configured_ ELSE bitrate_
        IN  /\ bwe_incoming_' = v
            /\ UNCHANGED << accumulate_lost_packets_Q8_,
                            accumulate_expected_packets_,
                            min_bitrate_configured_, max_bitrate_configured_,
                            last_fraction_loss_, last_round_trip_time_,
                            time_last_increase_, time_last_decrease_ >>
            /\ bitrate_' = CapBitrateToThresholds(This').bitrate_
            /\ v > 0 => (bitrate_' <= v \/ bitrate_' = min_bitrate_configured_)
            /\ bitrate_ >= min_bitrate_configured_ => bitrate_' <= bitrate_
            /\ v = 0 => bitrate_' = Max(c2, min_bitrate_configured_)
    ]_vars

\* UpdateReceiverEstimate(200000) lowered the bitrate to the estimate.
C9_Witness ==
  /\ IsHint(call) /\ call.bandwidth = 200000
  /\ bitrate_ = 200000
  /\ min_bitrate_configured_ < bitrate_
  /\ bitrate_ < max_bitrate_configured_

\* ------------------------------------------------------------------------
\* C10
\* ------------------------------------------------------------------------
\* C10: CurrentEstimate writes (bitrate_, last_fraction_loss_,
\* last_round_trip_time_) and changes no field, so a CurrentEstimate call
\* right after another writes the same values.
C10_CurrentEstimatePure ==
  [][ call'.op = "CurrentEstimate" =>
        /\ ret' = << bitrate_, last_fraction_loss_, last_round_trip_time_ >>
        /\ UNCHANGED fields
        /\ call.op = "CurrentEstimate" => ret' = ret
    ]_vars

\* CurrentEstimate returned three different positive values.
C10_Witness ==
  /\ call.op = "CurrentEstimate"
  /\ ret = << bitrate_, last_fraction_loss_, last_round_trip_time_ >>
  /\ last_fraction_loss_ > 0
  /\ last_round_trip_time_ > 0
  /\ last_fraction_loss_ # last_round_trip_time_
  /\ bitrate_ > last_round_trip_time_

\* ------------------------------------------------------------------------
\* C11
\* ------------------------------------------------------------------------
\* C11: in every reachable state last_fraction_loss_ is in 0..255 and
\* accumulate_expected_packets_ >= 0, so the decrease factor
\* 512 - last_fraction_loss_ is at least 257 and the multiplicative decrease
\* of the current bitrate lies between 0 and the bitrate.
C11_LossInRange ==
  /\ last_fraction_loss_ \in 0..255
  /\ accumulate_expected_packets_ >= 0
  /\ 512 - last_fraction_loss_ >= 257
  /\ (bitrate_ * (512 - last_fraction_loss_)) \div 512 >= 0
  /\ (bitrate_ * (512 - last_fraction_loss_)) \div 512 <= bitrate_

\* The first report committed the largest loss of the inputs and decreased
\* 300000 by the factor 312 / 512.
C11_Witness ==
  /\ IsReport(call) /\ call.branch = "decrease"
  /\ reports = 1
  /\ last_fraction_loss_ = 200
  /\ bitrate_ = 182812

\* ------------------------------------------------------------------------
\* C12
\* ------------------------------------------------------------------------
\* C12: a report on n > 0 packets that brings accumulate_expected_packets_
\* to 20 or more commits last_fraction_loss_ = floor(sum of fraction_loss_i *
\* packets_i / sum of packets_i) over the positive-packet reports since the
\* commit before: its own fraction_loss when nothing was pending, and the
\* packet-weighted mean with the pending report when the call before was a
\* gated report that everything pending came from.  Both accumulators are 0
\* afterwards, and rate adaptation runs on the loss just committed.
C12_LossCommit ==
  [][ (/\ IsReport(call') /\ call'.number_of_packets > 0
       /\ accumulate_expected_packets_ + call'.number_of_packets >= 20) =>
        LET f == call'.fraction_loss
            n == call'.number_of_packets
            committed == IF accumulate_expected_packets_ = 0
                         THEN (f * n) \div n
                         ELSE (accumulate_lost_packets_Q8_ + f * n)
                                \div (accumulate_expected_packets_ + n)
        IN  /\ last_fraction_loss_' = committed
            /\ accumulate_expected_packets_ = 0 => last_fraction_loss_' = f
            /\ (/\ IsReport(call) /\ call.branch = "gated"
                /\ accumulate_expected_packets_ = call.number_of_packets) =>
                  last_fraction_loss_' =
                    (call.fraction_loss * call.number_of_packets + f * n)
                      \div (call.number_of_packets + n)
            /\ accumulate_lost_packets_Q8_' = 0
            /\ accumulate_expected_packets_' = 0
            /\ call'.branch # "gated"
            /\ call'.branch \in {"increase", "increase_wait"}
                  <=> committed <= 5
            /\ call'.branch = "hold" <=> (committed > 5 /\ committed <= 26)
            /\ call'.branch \in {"decrease", "decrease_wait"}
                  <=> committed > 26
    ]_vars

\* Two reports of 10 packets, one with loss 0 and one with loss 200,
\* committed the mean 100, which neither of them reported.
C12_Witness ==
  /\ IsReport(call) /\ call.number_of_packets = 10
  /\ reports = 2
  /\ call.fraction_loss \in {0, 200}
  /\ last_fraction_loss_ = 100
  /\ accumulate_expected_packets_ = 0
  /\ accumulate_lost_packets_Q8_ = 0

\* ------------------------------------------------------------------------
\* C13
\* ------------------------------------------------------------------------
\* C13: a report with number_of_packets <= 0 leaves last_fraction_loss_ and
\* both accumulators unchanged, whatever its fraction_loss, and always runs
\* UpdateEstimate (rate adaptation and the cap) on the loss committed
\* before, with the rtt of the report stored; so it can change bitrate_
\* while fewer than 20 packets are accumulated.
C13_EmptyReportAdapts ==
  [][ (IsReport(call') /\ call'.number_of_packets <= 0) =>
        /\ UNCHANGED << last_fraction_loss_, accumulate_lost_packets_Q8_,
                        accumulate_expected_packets_ >>
        /\ call'.branch # "gated"
        /\ call'.branch =
             EstimateBranch([This EXCEPT !.last_round_trip_time_ = call'.rtt],
                            call'.now_ms)
        /\ This' =
             UpdateEstimate([This EXCEPT !.last_round_trip_time_ = call'.rtt],
                            call'.now_ms)
    ]_vars

\* A report with a negative number of packets increased the bitrate while
\* 10 packets with loss 200 were pending.
C13_Witness ==
  /\ IsReport(call) /\ call.number_of_packets < 0
  /\ call.branch = "increase"
  /\ accumulate_expected_packets_ = 10
  /\ accumulate_lost_packets_Q8_ = 2000
  /\ last_fraction_loss_ = 0
  /\ bitrate_ = 325000

\* ------------------------------------------------------------------------
\* C14
\* ------------------------------------------------------------------------
\* C14: every UpdateReceiverBlock call stores its rtt argument in
\* last_round_trip_time_, on every path; a gated report stores it although
\* it leaves bitrate_ and last_fraction_loss_ alone; the decrease cooldown of
\* the same call already uses it; and a CurrentEstimate call right after a
\* report writes that report's rtt.
C14_RttAlwaysStored ==
  [][ /\ IsReport(call') =>
           /\ last_round_trip_time_' = call'.rtt
           /\ call'.branch = "gated" =>
                UNCHANGED << bitrate_, last_fraction_loss_ >>
           /\ (/\ call'.branch \in {"decrease", "decrease_wait"}
               /\ call'.now_ms >= time_last_decrease_) =>
                ((call'.branch = "decrease")
                   <=> call'.now_ms - time_last_decrease_ >= 300 + call'.rtt)
      /\ (call'.op = "CurrentEstimate" /\ IsReport(call)) =>
           ret'[3] = call.rtt
    ]_vars

\* CurrentEstimate after SetSendBitrate(300000) and one gated report with
\* rtt = 100: the new rtt with the bitrate and the loss of before.
C14_Witness ==
  /\ call.op = "CurrentEstimate"
  /\ ret = << 300000, 0, 100 >>
  /\ reports = 1
  /\ accumulate_expected_packets_ = 10

\* ------------------------------------------------------------------------
\* C15
\* ------------------------------------------------------------------------
\* C15: when UpdateEstimate runs with last_fraction_loss_ in 6..26, both
\* timestamps keep their values and bitrate_ becomes the cap of the bitrate
\* before; and every run of UpdateEstimate changes at most one of
\* time_last_increase_ and time_last_decrease_, to now_ms, and only when it
\* applied the increase or the decrease respectively.
C15_DeadZone ==
  [][ IsAdaptingReport(call') =>
        LET now == call'.now_ms
        IN  /\ (last_fraction_loss_' >= 6 /\ last_fraction_loss_' <= 26) =>
                 /\ call'.branch = "hold"
                 /\ UNCHANGED << time_last_increase_, time_last_decrease_ >>
                 /\ bitrate_' = CapBitrateToThresholds(
                                   [This' EXCEPT !.bitrate_ = bitrate_]).bitrate_
            /\ (time_last_increase_' # time_last_increase_
                   => time_last_decrease_' = time_last_decrease_)
            /\ (time_last_increase_' # time_last_increase_
                   => (call'.branch = "increase" /\ time_last_increase_' = now))
            /\ (time_last_decrease_' # time_last_decrease_
                   => (call'.branch = "decrease" /\ time_last_decrease_' = now))
            /\ (call'.branch = "increase"
                   => (time_last_increase_' = now
                         /\ time_last_decrease_' = time_last_decrease_))
            /\ (call'.branch = "decrease"
                   => (time_last_decrease_' = now
                         /\ time_last_increase_' = time_last_increase_))
            /\ (call'.branch \in {"increase_wait", "decrease_wait", "hold"}
                   => UNCHANGED << time_last_increase_, time_last_decrease_ >>)
    ]_vars

\* The second report committed the loss 26 at 2000 ms: no timestamp moved
\* (the increase of the first report at 1000 ms is the last one) and the
\* bitrate is the one that increase left.
C15_Witness ==
  /\ IsReport(call) /\ call.branch = "hold"
  /\ reports = 2
  /\ last_fraction_loss_ = 26
  /\ call.now_ms = 2000
  /\ time_last_increase_ = 1000
  /\ time_last_decrease_ = 0
  /\ bitrate_ = 325000

\* ------------------------------------------------------------------------
\* C16
\* ------------------------------------------------------------------------
\* A clock that wraps.  A uint32_t time of 2^31 or more is written as the
\* negative number it is congruent to modulo 2^32: -999 stands for
\* 2^32 - 999, the time 999 ms before the clock wraps to 0.  The fields hold
\* what the calls store, so a timestamp taken before the wrap is negative
\* too.  With this reading ElapsedAtLeast is the comparison of lines 124 and
\* 142-143 as it stands: for now_ms >= last as written the uint32_t
\* difference is now_ms - last, otherwise it is 2^32 - (last - now_ms).
\* The times: 1000, 999 and 300 ms before the wrap, the wrap, and 1000 ms
\* after it.
ClockTimes == {-1000, -999, -300, 0, 1000}
ClockLosses == {0, 200}
ClockRtts == {0, 50}
ClockPacketCounts == {25}

\* The calls of a sender whose clock wraps or runs backwards between two
\* reports.
ClockNext ==
  \/ \E bitrate \in SendBitrates : SetSendBitrate(bitrate)
  \/ \E min_bitrate \in MinBitrates, max_bitrate \in MaxBitrates :
        SetMinMaxBitrate(min_bitrate, max_bitrate)
  \/ \E fraction_loss \in ClockLosses, rtt \in ClockRtts,
        number_of_packets \in ClockPacketCounts, now_ms \in ClockTimes :
        UpdateReceiverBlock(fraction_loss, rtt, number_of_packets, now_ms)

ClockSpec == Init /\ [][ClockNext]_vars

\* a < b as uint32_t values, for a and b written as above.
UnsignedLess(a, b) ==
  IF (a >= 0) = (b >= 0) THEN a < b ELSE a >= 0

\* d = last - now_ms > 0: whether 2^32 - d >= interval, compared around 2^31.
WrappedAtLeast(d, interval) ==
  d - 2147483647 - 1 <= 2147483647 - interval + 1

\* C16 as stated: an adjustment is eligible if and only if
\* (now_ms - time_last_X) mod 2^32 >= interval.  So the first report of a
\* fresh estimator cannot increase with now_ms < 1000 and cannot decrease
\* with now_ms < 300 + rtt, and a now_ms smaller than the stored timestamp
\* (the clock wrapped, or the caller's clock ran backwards) makes the
\* adjustment eligible.
C16_UnsignedCooldownAsStated ==
  [][ IsAdaptingReport(call') =>
        LET now == call'.now_ms
            inc == IF now >= time_last_increase_
                   THEN now - time_last_increase_ >= 1000
                   ELSE WrappedAtLeast(time_last_increase_ - now, 1000)
            dec == IF now >= time_last_decrease_
                   THEN now - time_last_decrease_ >= 300 + call'.rtt
                   ELSE WrappedAtLeast(time_last_decrease_ - now,
                                       300 + call'.rtt)
        IN  /\ last_fraction_loss_' <= 5 => ((call'.branch = "increase") <=> inc)
            /\ last_fraction_loss_' > 26 => ((call'.branch = "decrease") <=> dec)
            /\ (reports = 0 /\ time_last_increase_ = 0
                  /\ UnsignedLess(now, 1000))
                  => call'.branch # "increase"
            /\ (reports = 0 /\ time_last_decrease_ = 0
                  /\ UnsignedLess(now, 300 + call'.rtt))
                  => call'.branch # "decrease"
            /\ (last_fraction_loss_' <= 5
                  /\ UnsignedLess(now, time_last_increase_))
                  => call'.branch = "increase"
            /\ (last_fraction_loss_' > 26
                  /\ UnsignedLess(now, time_last_decrease_))
                  => call'.branch = "decrease"
    ]_vars

\* C16 amended: as stated, except for the last part: a now_ms smaller than
\* the stored timestamp makes the adjustment eligible when the caller's
\* clock ran backwards by no more than 2^32 - interval, and when the clock
\* wrapped and interval ms or more have passed since the timestamp; a report
\* that comes less than interval ms after a timestamp taken before the wrap
\* is not eligible, although its now_ms is the smaller number.
C16_UnsignedCooldown ==
  [][ IsAdaptingReport(call') =>
        LET now == call'.now_ms
            inc == IF now >= time_last_increase_
                   THEN now - time_last_increase_ >= 1000
                   ELSE WrappedAtLeast(time_last_increase_ - now, 1000)
            dec == IF now >= time_last_decrease_
                   THEN now - time_last_decrease_ >= 300 + call'.rtt
                   ELSE WrappedAtLeast(time_last_decrease_ - now,
                                       300 + call'.rtt)
            \* now_ms is past the wrap and the timestamp is before it.
            wrappedInc == now >= 0 /\ time_last_increase_ < 0
            wrappedDec == now >= 0 /\ time_last_decrease_ < 0
        IN  /\ last_fraction_loss_' <= 5 => ((call'.branch = "increase") <=> inc)
            /\ last_fraction_loss_' > 26 => ((call'.branch = "decrease") <=> dec)
            /\ (reports = 0 /\ time_last_increase_ = 0
                  /\ UnsignedLess(now, 1000))
                  => call'.branch # "increase"
            /\ (reports = 0 /\ time_last_decrease_ = 0
                  /\ UnsignedLess(now, 300 + call'.rtt))
                  => call'.branch # "decrease"
            /\ (last_fraction_loss_' <= 5
                  /\ UnsignedLess(now, time_last_increase_)) =>
                  /\ ~wrappedInc => call'.branch = "increase"
                  /\ wrappedInc =>
                       ((call'.branch = "increase")
                          <=> now - time_last_increase_ >= 1000)
            /\ (last_fraction_loss_' > 26
                  /\ UnsignedLess(now, time_last_decrease_)) =>
                  /\ ~wrappedDec => call'.branch = "decrease"
                  /\ wrappedDec =>
                       ((call'.branch = "decrease")
                          <=> now - time_last_decrease_ >= 300 + call'.rtt)
    ]_vars

\* The first report increased 999 ms before the wrap; the second came at
\* the wrap, with now_ms = 0 below the timestamp 2^32 - 999, and did not
\* increase.
C16_Witness ==
  /\ IsReport(call) /\ call.branch = "increase_wait"
  /\ reports = 2
  /\ call.now_ms = 0
  /\ time_last_increase_ = -999
  /\ bitrate_ = 325000

\* ------------------------------------------------------------------------
\* C17
\* ------------------------------------------------------------------------
\* C17: from a state whose bitrate_ satisfies the cap (minimum <= bitrate_ <=
\* maximum, and bitrate_ <= hint when the hint is positive), a report that
\* runs UpdateEstimate with last_fraction_loss_ > 26 never leaves bitrate_
\* higher than it was.
C17_CongestionNeverRaises ==
  [][ (/\ IsAdaptingReport(call')
       /\ last_fraction_loss_' > 26
       /\ min_bitrate_configured_ <= bitrate_
       /\ bitrate_ <= max_bitrate_configured_
       /\ (bwe_incoming_ > 0 => bitrate_ <= bwe_incoming_))
        => bitrate_' <= bitrate_
    ]_vars

\* ------------------------------------------------------------------------
\* C18
\* ------------------------------------------------------------------------
\* A healthy network: after the estimator is configured (and possibly left
\* with a gated report pending), every call is an UpdateReceiverBlock with
\* fraction_loss <= 5 on at least 20 packets, each 1000 ms after the one
\* before: the shortest gap the run allows, and the only one at which the
\* cooldown of line 124 can fail.  The run is cut after MaxHealthyReports
\* reports, more than the 58 increases that lead from 0 to the largest
\* maximum.
MaxHealthyReports == 62

HealthyMinBitrates == {0, 50000}
HealthyLosses == {0, 5}
HealthyPacketCounts == {20}
HealthyRtts == {50}
HealthyFirstTimes == {0, 1000}
HealthyGaps == {1000}
\* The report that may be pending when the run starts.
PendingLosses == {200}
PendingPacketCounts == {10}

\* The last call was a report of the healthy run.
InHealthyRun == IsReport(call) /\ "gap" \in DOMAIN call

\* UpdateReceiverBlock (lines 90-119) called by the healthy network: gap is
\* the time since the report before, for the first report of the run the
\* time of the report itself.
HealthyReport(fraction_loss, rtt, number_of_packets, gap) ==
  /\ reports < MaxHealthyReports
  /\ \E now_ms \in {IF InHealthyRun THEN call.now_ms + gap ELSE gap} :
       /\ \E s \in {ReceiverBlock(This, fraction_loss, rtt, number_of_packets,
                                   now_ms)} : Becomes(s)
       /\ \E branch \in {ReceiverBlockBranch(This, fraction_loss, rtt,
                                              number_of_packets, now_ms)} :
            call' = [op |-> "UpdateReceiverBlock",
                     fraction_loss |-> fraction_loss, rtt |-> rtt,
                     number_of_packets |-> number_of_packets,
                     now_ms |-> now_ms, branch |-> branch, gap |-> gap]
  /\ ret' = NoResult
  /\ reports' = reports + 1

\* The calls before the run: the setters, the receiver estimate, and a
\* report on too few packets to be committed.
HealthySetup ==
  /\ ~InHealthyRun
  /\ \/ \E bitrate \in SendBitrates : SetSendBitrate(bitrate)
     \/ \E min_bitrate \in HealthyMinBitrates, max_bitrate \in MaxBitrates :
           SetMinMaxBitrate(min_bitrate, max_bitrate)
     \/ \E bandwidth \in Bandwidths : UpdateReceiverEstimate(bandwidth)
     \/ \E fraction_loss \in PendingLosses, rtt \in HealthyRtts,
           number_of_packets \in PendingPacketCounts :
           /\ reports = 0
           /\ UpdateReceiverBlock(fraction_loss, rtt, number_of_packets, 0)

HealthyRun ==
  \/ /\ ~InHealthyRun
     /\ \E fraction_loss \in HealthyLosses, rtt \in HealthyRtts,
           number_of_packets \in HealthyPacketCounts,
           gap \in HealthyFirstTimes :
           HealthyReport(fraction_loss, rtt, number_of_packets, gap)
  \/ /\ InHealthyRun
     /\ \E fraction_loss \in HealthyLosses, rtt \in HealthyRtts,
           number_of_packets \in HealthyPacketCounts, gap \in HealthyGaps :
           HealthyReport(fraction_loss, rtt, number_of_packets, gap)

HealthyNext == HealthySetup \/ HealthyRun

\* Feedback keeps arriving: the run starts and goes on.
HealthySpec == Init /\ [][HealthyNext]_vars /\ WF_vars(HealthyRun)

\* The bitrate CapBitrateToThresholds leaves of a bitrate_ above every
\* threshold (lines 162-179 on the largest uint32_t): line 163 caps it to
\* the hint when there is one, line 166 to the maximum, and line 169 raises
\* the result to the minimum, also when the minimum is above the maximum.
HealthyCap ==
  LET b2 == IF bwe_incoming_ > 0 /\ bwe_incoming_ <= max_bitrate_configured_
            THEN bwe_incoming_ ELSE max_bitrate_configured_
      b3 == IF b2 < min_bitrate_configured_
            THEN min_bitrate_configured_ ELSE b2
  IN  b3

\* C18 as stated: with min <= max, every report of a healthy run strictly
\* increases bitrate_ or leaves it at the cap, a bitrate_ at the cap stays
\* there, and the cap is reached after finitely many reports.
C18_NoStallingAsStated ==
  /\ [][ (/\ InHealthyRun'
          /\ call' # call
          /\ min_bitrate_configured_ <= max_bitrate_configured_) =>
            (bitrate_' > bitrate_ \/ bitrate_' = HealthyCap')
       ]_vars
  /\ <>[](min_bitrate_configured_ <= max_bitrate_configured_
            => bitrate_ = HealthyCap)

\* C18 amended: with min <= max, every report of a healthy run after its
\* first strictly increases bitrate_ or leaves it at the cap, a bitrate_ at
\* the cap stays there, and the cap is reached after finitely many reports.
\* The first report of the run increases when it is 1000 ms or more after
\* time_last_increase_ and nothing pending raises the loss it commits
\* above 5.
C18_NoStalling ==
  /\ [][ (/\ InHealthyRun /\ InHealthyRun'
          /\ call' # call
          /\ min_bitrate_configured_ <= max_bitrate_configured_) =>
            /\ call'.branch = "increase"
            /\ bitrate_' > bitrate_ \/ bitrate_' = HealthyCap'
            /\ bitrate_ = HealthyCap => bitrate_' = HealthyCap'
       ]_vars
  /\ [][ (/\ ~InHealthyRun /\ InHealthyRun'
          /\ min_bitrate_configured_ <= max_bitrate_configured_
          /\ call'.now_ms >= time_last_increase_ + 1000
          /\ accumulate_lost_packets_Q8_ = 0) =>
            /\ call'.branch = "increase"
            /\ bitrate_' > bitrate_ \/ bitrate_' = HealthyCap'
       ]_vars
  /\ <>[](min_bitrate_configured_ <= max_bitrate_configured_
            => bitrate_ = HealthyCap)

\* A run from bitrate 0 with the bounds 0 and 1000000, after 57 reports
\* that all increased: 992270, one report short of the maximum.
C18_Witness ==
  /\ InHealthyRun /\ call.branch = "increase"
  /\ min_bitrate_configured_ = 0
  /\ max_bitrate_configured_ = 1000000
  /\ bwe_incoming_ = 0
  /\ bitrate_ = 992270
  /\ reports = 57
  /\ call.now_ms = 57000

\* ------------------------------------------------------------------------
\* C19
\* ------------------------------------------------------------------------
\* C19: after every public call, 0 <= accumulate_expected_packets_ <= 19 and
\* 0 <= accumulate_lost_packets_Q8_ <= 255 * accumulate_expected_packets_;
\* a commit leaves both at 0; and only UpdateReceiverBlock with
\* number_of_packets > 0 changes an accumulator.
C19_AccumulatorInvariant ==
  /\ accumulate_expected_packets_ = 0 /\ accumulate_lost_packets_Q8_ = 0
  /\ [][ /\ accumulate_expected_packets_' >= 0
         /\ accumulate_expected_packets_' <= 19
         /\ accumulate_lost_packets_Q8_' >= 0
         /\ accumulate_lost_packets_Q8_'
               <= 255 * accumulate_expected_packets_'
         /\ (IsAdaptingReport(call') /\ call'.number_of_packets > 0) =>
               (accumulate_expected_packets_' = 0
                  /\ accumulate_lost_packets_Q8_' = 0)
         /\ (\/ accumulate_expected_packets_' # accumulate_expected_packets_
             \/ accumulate_lost_packets_Q8_' # accumulate_lost_packets_Q8_)
               => (IsReport(call') /\ call'.number_of_packets > 0)
        ]_vars

\* After a commit of loss 200 by the first report, the second report was
\* gated and left 10 packets with loss 27 pending.
C19_Witness ==
  /\ IsReport(call) /\ call.branch = "gated"
  /\ reports = 2
  /\ last_fraction_loss_ = 200
  /\ accumulate_expected_packets_ = 10
  /\ accumulate_lost_packets_Q8_ = 270

====
